---- MODULE Spec2Model ----
(***************************************************************************)
(* Model of hz.tools/gpib: the Device handle (descriptor, lifecycle        *)
(* context, closed flag), Open/Close/Local/Write/Read and the status       *)
(* decoder (status.Err / getiberr).  The native linux-gpib layer is the    *)
(* environment: each native call returns a status word and leaves an       *)
(* auxiliary code and a count in the C globals iberr, ibcnt and ibcntl.    *)
(***************************************************************************)
EXTENDS Integers, Sequences, FiniteSets, TLC

\* ------------------------------------------------------------- bounds ----
\* Largest caller buffer length passed to Write / Read.
MaxLen == 2
\* Largest count the native layer reports (ibcnt / ibcntl); above MaxLen so
\* that a native count exceeding the caller's capacity occurs.
MaxCnt == 3
\* Largest auxiliary code the native layer leaves in iberr; above 16 so that
\* codes outside the decoder's table occur.
MaxCode == 17
\* Number of Close/Local/Write/Read calls made on one Device.
MaxCalls == 3
\* Number of calls started in the concurrent model (Close and Write/Read
\* together).
MaxConcCalls == 2

\* ------------------------------------------------------ native layer -----
\* Status words returned by ibonl/ibloc/ibwrt/ibrd: bit 15 (0x8000) clear
\* (0, 0x2100, 0x7FFF, 0x10000) and set (0x8000, 0xC100).
StatusWords == {0, 8448, 32767, 65536, 32768, 49408}

\* Auxiliary codes: the table's codes, the gaps 8, 9, 13, 17 and negatives.
Codes == (0 - 2)..MaxCode

Counts == 0..MaxCnt

\* What one native call on the bus leaves behind: its return value and the
\* globals.  The Device operations are run against END|CMPL (0x2100) and
\* ERR|CMPL (0x8100) with the codes EDVR (0), ENOL (2) and the unassigned 9;
\* the decoder itself is run over all of StatusWords \X Codes \X Counts.
NativeOutcomes == [rv : {8448, 33024}, iberr : {0, 2, 9}, cnt : Counts]

\* Descriptors ibdev can hand out; -1 is its failure sentinel.
Descriptors == {0}

VARIABLES
  opened,        \* Open has returned a *Device
  descriptor,    \* Device.descriptor
  closed,        \* Device.closed
  ctxCancelled,  \* Device.ctx is cancelled (ctx.Err() != nil)
  hasBase,       \* Options.BaseContext was given: ctx derives from it
  released,      \* native layer: the descriptor was released by ibonl
  iberr,         \* C.iberr
  ibcnt,         \* C.ibcnt
  ibcntl,        \* C.ibcntl
  op,            \* the operation that returned last
  arg,           \* len(buf) of that operation (0 when it takes no buffer)
  ret_n,         \* its returned count
  ret_err,       \* its returned error
  ret_data,      \* Read: the bytes copied into the caller's buffer
  calls,         \* the native bus call last issued, with the Device's state
                 \* at the moment it was issued (empty when none was issued)
  ncall,         \* number of Close/Local/Write/Read calls started
  nIbonl,        \* number of ibonl (native release) calls issued
  nCancel,       \* number of d.cancel() invocations
  pcC,           \* concurrent model: position of the goroutine in Close
  rvC,           \*   its local rv
  pcIO,          \* concurrent model: position of the goroutine in Write/Read
  ioOp,          \*   which of Write / Read it runs
  ioLen,         \*   len(buf)
  rvIO           \*   its local rv

dev  == <<opened, descriptor, closed, ctxCancelled, hasBase>>
glob == <<iberr, ibcnt, ibcntl>>
res  == <<op, arg, ret_n, ret_err, ret_data>>
cnts == <<ncall, nIbonl, nCancel>>
thr  == <<pcC, rvC, pcIO, ioOp, ioLen, rvIO>>
vars == <<dev, released, glob, res, calls, cnts, thr>>

\* ----------------------------------------------------- status decoder ----
\* error values: nil, a syscall.Errno, or an fmt.Errorf message.
Nil == [msg |-> "nil", errno |-> 0]
Errorf(m) == [msg |-> m, errno |-> 0]

\* syscall.Errno(C.ibcnt): Errno is a uintptr; the native layer leaves an
\* errno or a byte count in ibcnt, never a negative number, and on those the
\* conversion keeps the value.
Errno(c) == [msg |-> "syscall.Errno", errno |-> c]

\* getiberr without `case 12`: the filesystem error falls to the default.
getiberr_Case12Unknown(e, c) ==
  CASE e = 0  -> Errno(c)
    [] e = 1  -> Errorf("gpib: interface board needs to be controller-in-charge, but is not")
    [] e = 2  -> Errorf("gpib: attempted to write data or command bytes, but there are no listeners currently addressed")
    [] e = 3  -> Errorf("gpib: interface board has failed to address itself properly before starting an io operation")
    [] e = 4  -> Errorf("gpib: arguments to the function call were invalid")
    [] e = 5  -> Errorf("gpib: interface board needs to be system controller, but is not")
    [] e = 6  -> Errorf("gpib: read or write of data bytes has been aborted")
    [] e = 7  -> Errorf("gpib: interface board does not exist")
    [] e = 10 -> Errorf("gpib: function call can not proceed due to an asynchronous IO operation")
    [] e = 11 -> Errorf("gpib: GPIB board lacks desired capability")
    [] e = 14 -> Errorf("gpib: attempt to write command bytes to the bus has timed out")
    [] e = 15 -> Errorf("gpib: serial poll status bytes have been lost")
    [] e = 16 -> Errorf("gpib: serial poll request service line is stuck on")
    [] OTHER  -> Errorf("gpib: unknown error")

\* getiberr(): switch on C.iberr (e), reading C.ibcnt (c) for codes 0 and 12.
getiberr(e, c) ==
  CASE e = 0  -> Errno(c)
    [] e = 1  -> Errorf("gpib: interface board needs to be controller-in-charge, but is not")
    [] e = 2  -> Errorf("gpib: attempted to write data or command bytes, but there are no listeners currently addressed")
    [] e = 3  -> Errorf("gpib: interface board has failed to address itself properly before starting an io operation")
    [] e = 4  -> Errorf("gpib: arguments to the function call were invalid")
    [] e = 5  -> Errorf("gpib: interface board needs to be system controller, but is not")
    [] e = 6  -> Errorf("gpib: read or write of data bytes has been aborted")
    [] e = 7  -> Errorf("gpib: interface board does not exist")
    [] e = 10 -> Errorf("gpib: function call can not proceed due to an asynchronous IO operation")
    [] e = 11 -> Errorf("gpib: GPIB board lacks desired capability")
    [] e = 12 -> Errno(c)
    [] e = 14 -> Errorf("gpib: attempt to write command bytes to the bus has timed out")
    [] e = 15 -> Errorf("gpib: serial poll status bytes have been lost")
    [] e = 16 -> Errorf("gpib: serial poll request service line is stuck on")
    [] OTHER  -> Errorf("gpib: unknown error")

\* s & 0x8000 on a two's-complement integer.
And8000(s) == ((s \div 32768) % 2) * 32768

\* status.Err(): the decoded error of status word s, given the globals.
Err(s, e, c) == IF And8000(s) = 32768 THEN getiberr(e, c) ELSE Nil

\* --------------------------------------------------------- helpers -------
Min(a, b) == IF a <= b THEN a ELSE b

\* The bytes the device sent in one native transfer of n bytes; byte i of
\* the transfer is labelled i.
Transfer(n) == [i \in 1..n |-> i]

\* C.GoBytes(cbuf, n): the first n bytes at cbuf.
GoBytes(mem, n) == SubSeq(mem, 1, n)

\* copy without the clamp to len(buf): all of src is handed back.
copy_NoClamp(buflen, src) == src

\* copy(buf, src): the bytes that land in buf, min(len(buf), len(src)) of them.
copy(buflen, src) == SubSeq(src, 1, Min(buflen, Len(src)))

\* A native call: record it with the Device's state when it is issued, and
\* let the native layer set the globals.
Issue(fn, cancelledNow, out) ==
  /\ calls' = <<[fn |-> fn, desc |-> descriptor, rv |-> out.rv,
                 closed |-> closed, cancelled |-> cancelledNow,
                 released |-> released]>>
  /\ iberr' = out.iberr
  /\ ibcnt' = out.cnt
  /\ ibcntl' = out.cnt

\* Native layer: a call whose status word has ERR (bit 15) clear took effect.
NativeOk(rv) == rv % 65536 < 32768

Idle == pcC = "idle" /\ pcIO = "idle"

\* ------------------------------------------------------------ Init -------
Init ==
  /\ opened = FALSE /\ descriptor = -1 /\ closed = FALSE
  /\ ctxCancelled = FALSE /\ hasBase = FALSE /\ released = FALSE
  /\ iberr = 0 /\ ibcnt = 0 /\ ibcntl = 0
  /\ op = "none" /\ arg = 0 /\ ret_n = 0 /\ ret_err = Nil /\ ret_data = <<>>
  /\ calls = <<>>
  /\ ncall = 0 /\ nIbonl = 0 /\ nCancel = 0
  /\ pcC = "idle" /\ rvC = 0 /\ pcIO = "idle" /\ ioOp = "none" /\ ioLen = 0
  /\ rvIO = 0

\* --------------------------------------------------- sequential model ----
\* Options.context(): Background when opts or BaseContext is nil, else the
\* given context, which may already be cancelled.
context == {[base |-> FALSE, cancelled |-> FALSE],
            [base |-> TRUE, cancelled |-> FALSE],
            [base |-> TRUE, cancelled |-> TRUE]}

OpenError == Errorf("gpib: failed to open the specified device")

\* Open with `defer cancel()`: the context is cancelled when Open returns.
Open_DeferCancel ==
  /\ ~opened /\ Idle
  /\ \E parent \in context, desc \in Descriptors \cup {-1} :
       IF desc = -1
       THEN /\ ret_err' = OpenError
            /\ UNCHANGED dev
       ELSE /\ ret_err' = Nil
            /\ opened' = TRUE
            /\ descriptor' = desc
            /\ closed' = FALSE
            /\ hasBase' = parent.base
            /\ ctxCancelled' = TRUE
  /\ nCancel' = nCancel + 1
  /\ op' = "Open" /\ arg' = 0 /\ ret_n' = 0 /\ ret_data' = <<>>
  /\ calls' = <<>>
  /\ UNCHANGED <<released, glob, ncall, nIbonl, thr>>

\* Open(board, pad, sad, opts)
Open ==
  /\ ~opened /\ Idle
  /\ \E parent \in context, desc \in Descriptors \cup {-1} :
       IF desc = -1
       THEN /\ ret_err' = OpenError
            /\ UNCHANGED dev
       ELSE /\ ret_err' = Nil
            /\ opened' = TRUE
            /\ descriptor' = desc
            /\ closed' = FALSE
            /\ hasBase' = parent.base
            /\ ctxCancelled' = parent.cancelled
  /\ op' = "Open" /\ arg' = 0 /\ ret_n' = 0 /\ ret_data' = <<>>
  /\ calls' = <<>>
  /\ UNCHANGED <<released, glob, cnts, thr>>

\* The parent context given in Options is cancelled by its owner.
BaseCancel ==
  /\ opened /\ hasBase /\ ~ctxCancelled
  /\ ctxCancelled' = TRUE
  /\ UNCHANGED <<opened, descriptor, closed, hasBase, released, glob, res,
                 calls, cnts, thr>>

CanCall == opened /\ Idle /\ ncall < MaxCalls

Returns(o, a, n, e, d) ==
  op' = o /\ arg' = a /\ ret_n' = n /\ ret_err' = e /\ ret_data' = d

\* Close without the `if d.closed` guard of line 114.
Close_NoGuard ==
  /\ CanCall
  /\ ncall' = ncall + 1
  /\ \E out \in NativeOutcomes :
       LET err == Err(out.rv, out.iberr, out.cnt) IN
       /\ ctxCancelled' = TRUE
       /\ nCancel' = nCancel + 1
       /\ Issue("ibonl", TRUE, out)
       /\ nIbonl' = nIbonl + 1
       /\ released' = (released \/ NativeOk(out.rv))
       /\ closed' = (closed \/ err = Nil)
       /\ Returns("Close", 0, 0, err, <<>>)
       /\ UNCHANGED <<opened, descriptor, hasBase>>
  /\ UNCHANGED thr

\* Close that sets d.closed before looking at the decoded error.
Close_ClosedOnError ==
  /\ CanCall
  /\ ncall' = ncall + 1
  /\ IF closed
     THEN /\ Returns("Close", 0, 0, Nil, <<>>)
          /\ calls' = <<>>
          /\ UNCHANGED <<dev, released, glob, nIbonl, nCancel>>
     ELSE \E out \in NativeOutcomes :
          LET err == Err(out.rv, out.iberr, out.cnt) IN
          /\ ctxCancelled' = TRUE
          /\ nCancel' = nCancel + 1
          /\ Issue("ibonl", TRUE, out)
          /\ nIbonl' = nIbonl + 1
          /\ released' = (released \/ NativeOk(out.rv))
          /\ closed' = TRUE
          /\ Returns("Close", 0, 0, err, <<>>)
          /\ UNCHANGED <<opened, descriptor, hasBase>>
  /\ UNCHANGED thr

\* Device.Close()
Close ==
  /\ CanCall
  /\ ncall' = ncall + 1
  /\ IF closed
     THEN /\ Returns("Close", 0, 0, Nil, <<>>)
          /\ calls' = <<>>
          /\ UNCHANGED <<dev, released, glob, nIbonl, nCancel>>
     ELSE \E out \in NativeOutcomes :
          LET err == Err(out.rv, out.iberr, out.cnt) IN
          /\ ctxCancelled' = TRUE                      \* d.cancel()
          /\ nCancel' = nCancel + 1
          /\ Issue("ibonl", TRUE, out)                 \* C.ibonl(d.descriptor, 0)
          /\ nIbonl' = nIbonl + 1
          /\ released' = (released \/ NativeOk(out.rv))
          /\ closed' = (err = Nil)
          /\ Returns("Close", 0, 0, err, <<>>)
          /\ UNCHANGED <<opened, descriptor, hasBase>>
  /\ UNCHANGED thr

\* Device.Local()
Local ==
  /\ CanCall
  /\ ncall' = ncall + 1
  /\ \E out \in NativeOutcomes :
       /\ Issue("ibloc", ctxCancelled, out)            \* C.ibloc(d.descriptor)
       /\ Returns("Local", 0, 0, Err(out.rv, out.iberr, out.cnt), <<>>)
  /\ UNCHANGED <<dev, released, nIbonl, nCancel, thr>>

\* Write that returns the count the native layer reported (C.ibcntl).
Write_ReturnsNativeCount ==
  /\ CanCall
  /\ ncall' = ncall + 1
  /\ \E len \in 0..MaxLen, out \in NativeOutcomes :
       LET err == Err(out.rv, out.iberr, out.cnt) IN
       /\ Issue("ibwrt", ctxCancelled, out)
       /\ IF err # Nil
          THEN Returns("Write", len, 0, err, <<>>)
          ELSE Returns("Write", len, Min(len, out.cnt), Nil, <<>>)
  /\ UNCHANGED <<dev, released, nIbonl, nCancel, thr>>

\* Device.Write(buf)
Write ==
  /\ CanCall
  /\ ncall' = ncall + 1
  /\ \E len \in 0..MaxLen, out \in NativeOutcomes :
       LET err == Err(out.rv, out.iberr, out.cnt) IN
       /\ Issue("ibwrt", ctxCancelled, out)            \* C.ibwrt(d.descriptor, cb, len)
       /\ IF err # Nil
          THEN Returns("Write", len, 0, err, <<>>)
          ELSE Returns("Write", len, len, Nil, <<>>)
  /\ UNCHANGED <<dev, released, nIbonl, nCancel, thr>>

\* Read that marks the Device closed when the native read fails.
Read_ClosesOnError ==
  /\ CanCall
  /\ ncall' = ncall + 1
  /\ \E len \in 0..MaxLen, out \in NativeOutcomes :
       LET err  == Err(out.rv, out.iberr, out.cnt)
           leng == out.cnt
           got  == copy(len, GoBytes(Transfer(leng), leng))
       IN
       /\ Issue("ibrd", ctxCancelled, out)
       /\ IF err # Nil
          THEN Returns("Read", len, 0, err, <<>>) /\ closed' = TRUE
          ELSE Returns("Read", len, Len(got), Nil, got) /\ closed' = closed
  /\ UNCHANGED <<opened, descriptor, ctxCancelled, hasBase, released, nIbonl,
                 nCancel, thr>>

\* Device.Read(buf)
Read ==
  /\ CanCall
  /\ ncall' = ncall + 1
  /\ \E len \in 0..MaxLen, out \in NativeOutcomes :
       LET err  == Err(out.rv, out.iberr, out.cnt)
           leng == out.cnt                             \* C.ibcntl
           got  == copy(len, GoBytes(Transfer(leng), leng))
       IN
       /\ Issue("ibrd", ctxCancelled, out)             \* C.ibrd(d.descriptor, cbuf, cbuflen)
       /\ IF err # Nil
          THEN Returns("Read", len, 0, err, <<>>)
          ELSE Returns("Read", len, Len(got), Nil, got)
  /\ UNCHANGED <<dev, released, nIbonl, nCancel, thr>>

\* ------------------------------------------------------ decoder alone ----
\* status(rv).Err() applied to any status word and any value of the globals.
InitDecoder ==
  /\ opened = FALSE /\ descriptor = -1 /\ closed = FALSE
  /\ ctxCancelled = FALSE /\ hasBase = FALSE /\ released = FALSE
  /\ iberr \in Codes /\ ibcnt \in Counts /\ ibcntl = ibcnt
  /\ op = "none" /\ arg = 0 /\ ret_n = 0 /\ ret_err = Nil /\ ret_data = <<>>
  /\ calls = <<>>
  /\ ncall = 0 /\ nIbonl = 0 /\ nCancel = 0
  /\ pcC = "idle" /\ rvC \in StatusWords /\ pcIO = "idle" /\ ioOp = "none"
  /\ ioLen = 0 /\ rvIO = 0

StatusErr ==
  /\ op = "none"
  /\ op' = "Err"
  /\ ret_err' = Err(rvC, iberr, ibcnt)
  /\ UNCHANGED <<dev, released, glob, arg, ret_n, ret_data, calls, cnts, thr>>

SpecDecoder == InitDecoder /\ [][StatusErr]_vars

\* --------------------------------------------------- concurrent model ----
\* One goroutine runs Close while another runs one Write or Read on the same
\* Device; each step is one statement of the handler.  The caller of Write
\* and Read starts no I/O once Close has returned success.

\* Close that goes from the guard straight to the release, without d.cancel().
CloseBegin_NoCancel ==
  /\ opened /\ pcC = "idle" /\ ncall < MaxConcCalls
  /\ ncall' = ncall + 1
  /\ IF closed
     THEN /\ Returns("Close", 0, 0, Nil, <<>>)
          /\ pcC' = "idle"
     ELSE /\ pcC' = "ibonl"
          /\ UNCHANGED res
  /\ UNCHANGED <<dev, released, glob, calls, nIbonl, nCancel, rvC, pcIO,
                 ioOp, ioLen, rvIO>>

\* Close, line 114: if d.closed { return nil }
CloseBegin ==
  /\ opened /\ pcC = "idle" /\ ncall < MaxConcCalls
  /\ ncall' = ncall + 1
  /\ IF closed
     THEN /\ Returns("Close", 0, 0, Nil, <<>>)
          /\ pcC' = "idle"
     ELSE /\ pcC' = "cancel"
          /\ UNCHANGED res
  /\ UNCHANGED <<dev, released, glob, calls, nIbonl, nCancel, rvC, pcIO,
                 ioOp, ioLen, rvIO>>

\* Close, line 117: d.cancel()
CloseCancel ==
  /\ pcC = "cancel"
  /\ ctxCancelled' = TRUE
  /\ nCancel' = nCancel + 1
  /\ pcC' = "ibonl"
  /\ UNCHANGED <<opened, descriptor, closed, hasBase, released, glob, res,
                 calls, ncall, nIbonl, rvC, pcIO, ioOp, ioLen, rvIO>>

\* Close, line 118: rv := C.ibonl(d.descriptor, 0)
CloseIbonl ==
  /\ pcC = "ibonl"
  /\ \E out \in NativeOutcomes :
       /\ Issue("ibonl", ctxCancelled, out)
       /\ rvC' = out.rv
       /\ released' = (released \/ NativeOk(out.rv))
  /\ nIbonl' = nIbonl + 1
  /\ pcC' = "decode"
  /\ UNCHANGED <<dev, res, ncall, nCancel, pcIO, ioOp, ioLen, rvIO>>

\* Close, lines 119-123: decode rv; on success d.closed = true
CloseDecode ==
  /\ pcC = "decode"
  /\ LET err == Err(rvC, iberr, ibcnt) IN
       /\ closed' = (err = Nil)
       /\ Returns("Close", 0, 0, err, <<>>)
  /\ pcC' = "idle"
  /\ UNCHANGED <<opened, descriptor, ctxCancelled, hasBase, released, glob,
                 calls, cnts, rvC, pcIO, ioOp, ioLen, rvIO>>

\* Write, lines 143-144 (C.CBytes) / Read, lines 155-156 (C.malloc)
IOBegin ==
  /\ opened /\ pcIO = "idle" /\ ncall < MaxConcCalls
  /\ ~closed
  /\ ncall' = ncall + 1
  /\ \E o \in {"Write", "Read"}, len \in 0..MaxLen :
       ioOp' = o /\ ioLen' = len
  /\ pcIO' = "native"
  /\ UNCHANGED <<dev, released, glob, res, calls, nIbonl, nCancel, pcC, rvC,
                 rvIO>>

\* Write, line 145: C.ibwrt(d.descriptor, ...) / Read, line 159: C.ibrd(...)
IONative ==
  /\ pcIO = "native"
  /\ \E out \in NativeOutcomes :
       /\ Issue(IF ioOp = "Write" THEN "ibwrt" ELSE "ibrd", ctxCancelled, out)
       /\ rvIO' = out.rv
  /\ pcIO' = "decode"
  /\ UNCHANGED <<dev, released, res, cnts, pcC, rvC, ioOp, ioLen>>

\* Write, lines 146-149 / Read, lines 160-166: decode rv and return
IODecode ==
  /\ pcIO = "decode"
  /\ LET err == Err(rvIO, iberr, ibcnt)
         got == copy(ioLen, GoBytes(Transfer(ibcntl), ibcntl))
     IN
       IF err # Nil
       THEN Returns(ioOp, ioLen, 0, err, <<>>)
       ELSE IF ioOp = "Write"
            THEN Returns(ioOp, ioLen, ioLen, Nil, <<>>)
            ELSE Returns(ioOp, ioLen, Len(got), Nil, got)
  /\ pcIO' = "idle"
  /\ UNCHANGED <<dev, released, glob, calls, cnts, pcC, rvC, ioOp, ioLen,
                 rvIO>>

NextConc ==
  \/ Open \/ BaseCancel
  \/ CloseBegin \/ CloseCancel \/ CloseIbonl \/ CloseDecode
  \/ IOBegin \/ IONative \/ IODecode

SpecConc == Init /\ [][NextConc]_vars

Next == Open \/ BaseCancel \/ Close \/ Local \/ Write \/ Read

Spec == Init /\ [][Next]_vars

\* ============================================================ claims =====
\* A step in which operation o is called (sequential model).
IsCall(o) == ncall' = ncall + 1 /\ op' = o

\* ERR (bit 15, 0x8000) of a status word.
Bit15(rv) == (rv \div 32768) % 2 = 1

\* C1: once a Close has succeeded (closed is set), every later Close returns
\* success, issues no native call and leaves the count of ibonl calls as it
\* was.
C1_CloseIdempotent ==
  [][(closed /\ IsCall("Close"))
       => (ret_err' = Nil /\ calls' = <<>> /\ nIbonl' = nIbonl /\ closed')]_vars

\* A second Close, after the one that released the descriptor, has returned.
C1_Witness ==
  /\ op = "Close" /\ ret_err = Nil /\ closed
  /\ calls = <<>> /\ nIbonl = 1 /\ ncall >= 2

\* C2: a Close on a Device that is not closed always performs the native
\* release (also right after a failed one); when the release decodes to an
\* error Close returns that error and closed stays false; closed is set only
\* by a Close whose release decoded as success.
C2_CloseFailureRetries ==
  [][ /\ (~closed /\ IsCall("Close"))
           => /\ nIbonl' = nIbonl + 1
              /\ calls' # <<>>
              /\ calls'[1].fn = "ibonl"
              /\ Bit15(calls'[1].rv)
                   => /\ ret_err' # Nil
                      /\ ret_err' = getiberr(iberr', ibcnt')
                      /\ ~closed'
              /\ ~Bit15(calls'[1].rv) => (ret_err' = Nil /\ closed')
      /\ (~closed /\ closed')
           => /\ IsCall("Close")
              /\ calls' # <<>>
              /\ calls'[1].fn = "ibonl"
              /\ ~Bit15(calls'[1].rv) ]_vars

\* A Close failed, and the Close after it released again and succeeded.
C2_Witness ==
  /\ op = "Close" /\ closed /\ nIbonl = 2 /\ ncall = 2
  /\ calls # <<>> /\ calls[1].fn = "ibonl"

\* C3: no native bus call is issued on a Device whose closed flag is set.
C3_NoUseAfterClose ==
  \A i \in DOMAIN calls : ~calls[i].closed

\* C4: with Close racing one in-flight Write or Read, the native I/O call is
\* never issued on a descriptor that Close has already released.
C4_NoIOOnReleasedDescriptor ==
  \A i \in DOMAIN calls :
    calls[i].fn \in {"ibwrt", "ibrd"} => ~calls[i].released

\* C5 as stated: the lifecycle context's cancel is triggered at most once
\* over the life of a Device.
C5_CancelTriggeredOnce == nCancel <= 1

\* C5 amended: cancel is triggered only by Close, once by every Close call
\* that finds closed == false (so again by a Close repeated after a failed
\* release) and by no Close call that finds closed == true.
C5_CancelOnlyInClose ==
  [][ /\ (nCancel' # nCancel)
           => (IsCall("Close") /\ ~closed /\ nCancel' = nCancel + 1)
      /\ (IsCall("Close") /\ ~closed) => nCancel' = nCancel + 1
      /\ (IsCall("Close") /\ closed) => nCancel' = nCancel ]_vars

\* Close has triggered cancel twice: a failed Close and its retry.
C5_Witness == nCancel = 2 /\ op = "Close" /\ nIbonl = 2

\* The error kinds of the decoder's table, by auxiliary code.
TableKind(e) ==
  CASE e \in {0, 12} -> "SystemCall"
    [] e = 1  -> "NotControllerInCharge"
    [] e = 2  -> "NoListeners"
    [] e = 3  -> "AddressingFailure"
    [] e = 4  -> "InvalidArguments"
    [] e = 5  -> "NotSystemController"
    [] e = 6  -> "IOAborted"
    [] e = 7  -> "BoardNotFound"
    [] e = 10 -> "AsyncPending"
    [] e = 11 -> "CapabilityMissing"
    [] e = 14 -> "Timeout"
    [] e = 15 -> "StatusBytesLost"
    [] e = 16 -> "ServiceRequestStuck"
    [] OTHER  -> "Unknown"

\* The error kind an error value of the package stands for.
KindOf(err) ==
  CASE err.msg = "syscall.Errno" -> "SystemCall"
    [] err.msg = "gpib: interface board needs to be controller-in-charge, but is not" -> "NotControllerInCharge"
    [] err.msg = "gpib: attempted to write data or command bytes, but there are no listeners currently addressed" -> "NoListeners"
    [] err.msg = "gpib: interface board has failed to address itself properly before starting an io operation" -> "AddressingFailure"
    [] err.msg = "gpib: arguments to the function call were invalid" -> "InvalidArguments"
    [] err.msg = "gpib: interface board needs to be system controller, but is not" -> "NotSystemController"
    [] err.msg = "gpib: read or write of data bytes has been aborted" -> "IOAborted"
    [] err.msg = "gpib: interface board does not exist" -> "BoardNotFound"
    [] err.msg = "gpib: function call can not proceed due to an asynchronous IO operation" -> "AsyncPending"
    [] err.msg = "gpib: GPIB board lacks desired capability" -> "CapabilityMissing"
    [] err.msg = "gpib: attempt to write command bytes to the bus has timed out" -> "Timeout"
    [] err.msg = "gpib: serial poll status bytes have been lost" -> "StatusBytesLost"
    [] err.msg = "gpib: serial poll request service line is stuck on" -> "ServiceRequestStuck"
    [] err.msg = "gpib: unknown error" -> "Unknown"
    [] OTHER -> "none"

\* C6: the decoder returns success when bit 15 of the status word is clear,
\* whatever the auxiliary code; when it is set it returns the table's kind
\* for the code (SystemCall carrying ibcnt as the error number for 0 and
\* 12), and Unknown for every code outside the table.
C6_DecoderMatchesTable ==
  op = "Err" =>
    IF Bit15(rvC)
    THEN /\ ret_err # Nil
         /\ KindOf(ret_err) = TableKind(iberr)
         /\ TableKind(iberr) = "SystemCall" => ret_err.errno = ibcnt
    ELSE ret_err = Nil

\* The decoder has decoded code 12 with byte-count register 3.
C6_Witness ==
  /\ op = "Err" /\ Bit15(rvC) /\ iberr = 12 /\ ibcnt = 3
  /\ KindOf(ret_err) = "SystemCall" /\ ret_err.errno = 3

\* C7: a Read whose native status decodes as success returns no error and
\* exactly min(len(buf), native count) bytes, the first bytes of that
\* transfer.
C7_ReadReturnsMin ==
  (op = "Read" /\ calls # <<>> /\ ~Bit15(calls[1].rv)) =>
    /\ ret_err = Nil
    /\ ret_n = (IF arg < ibcntl THEN arg ELSE ibcntl)
    /\ Len(ret_data) = ret_n
    /\ \A i \in 1..ret_n : ret_data[i] = i

\* A Read returned len(buf) bytes of a longer native transfer.
C7_Witness ==
  /\ op = "Read" /\ ret_err = Nil /\ arg > 0 /\ ibcntl > arg /\ ret_n = arg

\* C8: Write returns (len(buf), nil) when the native status decodes as
\* success and (0, decoded error) when it decodes as an error.
C8_WriteAllOrNothing ==
  (op = "Write" /\ calls # <<>>) =>
    /\ ~Bit15(calls[1].rv) => (ret_n = arg /\ ret_err = Nil)
    /\ Bit15(calls[1].rv)
         => (ret_n = 0 /\ ret_err # Nil /\ ret_err = getiberr(iberr, ibcnt))
    /\ ~(0 < ret_n /\ ret_n < arg)

\* A Write of a non-empty buffer succeeded although the native layer
\* reported a smaller count.
C8_Witness ==
  /\ op = "Write" /\ ret_err = Nil /\ arg = 2 /\ ret_n = 2 /\ ibcntl = 1

\* C9: whenever the native release is issued the lifecycle context is
\* already cancelled, and so it is in every state where closed is set or a
\* release has been issued.
C9_CancelBeforeRelease ==
  /\ \A i \in DOMAIN calls : calls[i].fn = "ibonl" => calls[i].cancelled
  /\ closed => ctxCancelled
  /\ nIbonl > 0 => ctxCancelled

\* Close released a Device opened without a base context.
C9_Witness ==
  /\ closed /\ ~hasBase /\ ctxCancelled
  /\ calls # <<>> /\ calls[1].fn = "ibonl" /\ calls[1].cancelled

\* C10: Write, Read and Local leave closed, descriptor and the cancellation
\* state of the lifecycle context as they were; Open returns a Device with
\* closed false; closed never goes back from true to false.
C10_OnlyCloseMutates ==
  [][ /\ (IsCall("Write") \/ IsCall("Read") \/ IsCall("Local"))
           => UNCHANGED <<closed, descriptor, ctxCancelled>>
      /\ (~opened /\ opened') => ~closed'
      /\ closed => closed' ]_vars

\* A Read whose native call failed has returned on a closed Device, as the
\* third call.
C10_Witness ==
  /\ op = "Read" /\ ret_err # Nil /\ closed /\ ctxCancelled /\ ncall = 3

====
